---- MODULE Spec2Model ----
(***************************************************************************)
(* Model of the talent-success agent's processing graph (ts_agent/graph.py *)
(* and the node functions under ts_agent/nodes).  One conversation run is  *)
(* a walk through the graph; every step executes the node function of the  *)
(* current stage on the shared state and then resolves the outgoing edge   *)
(* with that stage's routing function.  External calls (generation         *)
(* service, tool gateway, validator, ticketing backend) are inputs drawn   *)
(* from small sets.  Lookups of ToolType enum members are taken to resolve.*)
(***************************************************************************)
EXTENDS Integers, Sequences, FiniteSets, TLC

\* ---------------------------------------------------------------- bounds
\* largest max_hops / max_actions / max_validation_retries a caller passes
MaxHopsCfg == 2
MaxActionsCfg == 2
MaxRetriesCfg == 1

\* ------------------------------------------------------------- constants
\* a dict key that is not present / a Python None
ABSENT == "absent"
NONE == "None"

\* variant: one more retry than the code allows
max_pydantic_retries_plus_one == 2 + 1

max_pydantic_retries == 2

LINK_TOOL == "match_and_link_conversation_to_ticket"
RESET_TOOL == "generate_reset_interview_link"
ROUTE_TOOL == "route_conversation_to_project_client"

\* tools the gateway lists (search_procedures is filtered out by Initialize)
MCPTools == {LINK_TOOL, RESET_TOOL}
\* names the generation service may put into an action decision
ToolNames == MCPTools

PROCEDURE_SPECIFIC_TOOLS == {ROUTE_TOOL, RESET_TOOL}

NO_ESCALATION_TOOLS ==
    {ROUTE_TOOL, RESET_TOOL, "generate_reset_tax_document_link", "generate_reset_form_link"}

VARIABLES
    pc,                   \* stage the engine runs next; "END" once the graph has
                          \* finished, "crashed" once a stage let an exception escape
    conversation_id,      \* "" when the caller gave none
    melvin_admin_id,      \* "" when MELVIN_ADMIN_ID is not configured
    has_context,          \* state holds messages or a subject
    available_tools,      \* names of the tool descriptors in the state
    selected_procedure,   \* <<>> (None) or <<record>>
    procedure_required_action_tools,
    hops,                 \* hop log
    max_hops,
    actions,              \* action log
    actions_taken,
    max_actions,
    max_validation_retries,
    draft,                \* <<>> (absent) or <<draft record>>
    response,             \* reply text: "" or a text tag
    validate,             \* validation-attempt log
    response_delivery,    \* <<>> or <<delivery record>>
    escalate,             \* <<>> or <<escalation record>>
    finalize,             \* <<>> or <<finalize record>>
    error,                \* NONE or an error tag
    next_node,            \* routing token, ABSENT before the first write
    escalation_reason,    \* ABSENT, NONE or a reason tag
    token_by,             \* stage that assigned next_node last (bookkeeping)
    mode,                 \* "test" or "production"
    dry_run,              \* the state's dry-run flag: <<>> (absent) or <<flag>>
    env_dry_run,          \* the DRY_RUN environment variable reads as true
    real_writes,          \* stages that issued a real write to the ticketing
                          \* backend while the state's dry-run flag was true
    clocks,               \* readings the wall clock can give during the run
    actions_rerun,        \* action log of a second run of the same input
                          \* on the same external responses
    parked,               \* <<>>, or <<state of the other run>> of a batch of
                          \* two while this run's stage executes
    analysis              \* <<>>, or <<arguments and results>> of a Coverage
                          \* run made on its own (SpecCoverage)

vars ==
    <<pc, conversation_id, melvin_admin_id, has_context, available_tools,
      selected_procedure, procedure_required_action_tools, hops, max_hops,
      actions, actions_taken, max_actions, max_validation_retries, draft,
      response, validate, response_delivery, escalate, finalize, error,
      next_node, escalation_reason, token_by, mode, dry_run, env_dry_run,
      real_writes, clocks, actions_rerun, parked, analysis>>

\* what no stage assigns
cfgVars ==
    <<conversation_id, melvin_admin_id, max_hops, max_actions,
      max_validation_retries, mode, env_dry_run, clocks, parked, analysis>>

Truthy(x) == x \notin {ABSENT, NONE, ""}

\* variant: the stages work on the first hop record
first_hop_index(hop_log) == 1

\* the hop record Gather, Coverage and Action work on: the last one
current_hop_index(hop_log) == Len(hop_log)

\* ------------------------------------------------------ routing functions
\* variant: the error is not looked at
route_from_initialize_to_procedure(err) == "procedure"

route_from_initialize(err) == IF Truthy(err) THEN "escalate" ELSE "procedure"

route_from_plan(err) == IF Truthy(err) THEN "escalate" ELSE "gather"

route_from_gather(err) == IF Truthy(err) THEN "escalate" ELSE "coverage"

route_from_coverage(tok) ==
    IF tok = "plan" THEN "plan"
    ELSE IF tok = "respond" THEN "draft"
    ELSE IF tok = "action" THEN "action"
    ELSE IF tok = "escalate" THEN "escalate"
    ELSE "END"

\* variant: the Action edge always returns to Coverage
route_from_action_always_coverage(tok) == "coverage"

route_from_action(tok) ==
    IF tok = "coverage" THEN "coverage"
    ELSE IF tok = "escalate" THEN "escalate"
    ELSE "coverage"

\* variant: the Draft edge taken as unconditional
route_from_draft_unconditional(tok) == "validate"

route_from_draft(tok) == IF tok = "escalate" THEN "escalate" ELSE "validate"

\* variant: every token but draft sends the run to Respond
route_from_validate_lenient(tok) == IF tok = "draft" THEN "draft" ELSE "response"

route_from_validate(tok) ==
    IF tok = "response" THEN "response"
    ELSE IF tok = "draft" THEN "draft"
    ELSE IF tok = "escalate" THEN "escalate"
    ELSE "END"

route_from_response(tok) == IF tok = "escalate" THEN "escalate" ELSE "finalize"

\* the stages whose conditional edge is resolved from next_node
TokenRouted == {"coverage", "action", "draft", "validate", "response"}

\* ------------------------------------------------------------------ Init
\* graph.invoke(initial_state): the caller supplies the conversation id and
\* may supply the ceilings; everything else is absent until Initialize runs.
\* A deployment without MELVIN_ADMIN_ID is followed with the smallest
\* ceilings only.
\* IntercomClient.__init__: the dry_run parameter, when given, overrides the
\* DRY_RUN environment variable
ClientDryRun(param, env) == IF param # <<>> THEN param[1] ELSE env

\* state.get("dry_run", False)
StateDryRun(flag) == flag # <<>> /\ flag[1]

\* a write of `stage` through a client built with the dry_run parameter
\* `param` (<<>>: built without it): it reaches the backend unless the client
\* is in dry-run mode, and it is recorded if the state's flag is true
RealWritesUnderDryRun(stage, param) ==
    IF StateDryRun(dry_run) /\ ~ClientDryRun(param, env_dry_run)
    THEN {stage} ELSE {}

\* a worker state that does not keep the hop log of its own run
RunStateHopLogDropped ==
    [pc |-> pc,
     conversation_id |-> conversation_id,
     melvin_admin_id |-> melvin_admin_id,
     has_context |-> has_context,
     available_tools |-> available_tools,
     selected_procedure |-> selected_procedure,
     procedure_required_action_tools |-> procedure_required_action_tools,
     hops |-> <<>>,
     max_hops |-> max_hops,
     actions |-> actions,
     actions_taken |-> actions_taken,
     max_actions |-> max_actions,
     max_validation_retries |-> max_validation_retries,
     draft |-> draft,
     response |-> response,
     validate |-> validate,
     response_delivery |-> response_delivery,
     escalate |-> escalate,
     finalize |-> finalize,
     error |-> error,
     next_node |-> next_node,
     escalation_reason |-> escalation_reason,
     token_by |-> token_by,
     mode |-> mode,
     dry_run |-> dry_run,
     real_writes |-> real_writes,
     actions_rerun |-> actions_rerun]

\* the state of one run: what run_conversation builds and the graph works on
RunState ==
    [pc |-> pc,
     conversation_id |-> conversation_id,
     melvin_admin_id |-> melvin_admin_id,
     has_context |-> has_context,
     available_tools |-> available_tools,
     selected_procedure |-> selected_procedure,
     procedure_required_action_tools |-> procedure_required_action_tools,
     hops |-> hops,
     max_hops |-> max_hops,
     actions |-> actions,
     actions_taken |-> actions_taken,
     max_actions |-> max_actions,
     max_validation_retries |-> max_validation_retries,
     draft |-> draft,
     response |-> response,
     validate |-> validate,
     response_delivery |-> response_delivery,
     escalate |-> escalate,
     finalize |-> finalize,
     error |-> error,
     next_node |-> next_node,
     escalation_reason |-> escalation_reason,
     token_by |-> token_by,
     mode |-> mode,
     dry_run |-> dry_run,
     real_writes |-> real_writes,
     actions_rerun |-> actions_rerun]

\* the state a run of the batch driver starts from: a production run of a
\* conversation with the smallest ceilings
StartOfRun ==
    [pc |-> "initialize", conversation_id |-> "conv", melvin_admin_id |-> "admin",
     has_context |-> FALSE, available_tools |-> {}, selected_procedure |-> <<>>,
     procedure_required_action_tools |-> {}, hops |-> <<>>, max_hops |-> 1,
     actions |-> <<>>, actions_taken |-> 0, max_actions |-> 0,
     max_validation_retries |-> 0, draft |-> <<>>, response |-> "",
     validate |-> <<>>, response_delivery |-> <<>>, escalate |-> <<>>,
     finalize |-> <<>>, error |-> NONE, next_node |-> ABSENT,
     escalation_reason |-> ABSENT, token_by |-> ABSENT, mode |-> "production",
     dry_run |-> <<>>, real_writes |-> {}, actions_rerun |-> <<>>]

\* the same for a run_conversation call whose conversation id is empty
StartOfShortRun == [StartOfRun EXCEPT !.conversation_id = ""]

\* a run alone, or a batch of two
ParkedAtStart == {<<>>, <<StartOfRun>>, <<StartOfShortRun>>}

InitWorkflow ==
    /\ pc = "initialize"
    /\ conversation_id \in {"", "conv"}
    /\ melvin_admin_id \in {"", "admin"}
    /\ max_hops \in 1..MaxHopsCfg
    /\ max_actions \in 0..MaxActionsCfg
    /\ max_validation_retries \in 0..MaxRetriesCfg
    /\ melvin_admin_id = "" =>
           (max_hops = 1 /\ max_actions = 0 /\ max_validation_retries = 0)
    /\ has_context = FALSE
    /\ available_tools = {}
    /\ selected_procedure = <<>>
    /\ procedure_required_action_tools = {}
    /\ hops = <<>>
    /\ actions = <<>>
    /\ actions_taken = 0
    /\ draft = <<>>
    /\ response = ""
    /\ validate = <<>>
    /\ response_delivery = <<>>
    /\ escalate = <<>>
    /\ finalize = <<>>
    /\ error = NONE
    /\ next_node = ABSENT
    /\ escalation_reason = ABSENT
    /\ token_by = ABSENT
    /\ real_writes = {}
    /\ actions_rerun = <<>>
    /\ parked \in ParkedAtStart
    /\ analysis = <<>>

\* a production run without dry-run flag
Init ==
    /\ InitWorkflow
    /\ mode = "production"
    /\ dry_run = <<>>
    /\ env_dry_run = FALSE
    /\ clocks = {0}
    /\ parked = <<>>

\* ------------------------------------------------------------ Initialize
\* outcome "ok": conversation fetched (messages or subject present) and the
\* tool list obtained; "fail": any exception inside the guarded block
\* (ticketing fetch failed, conversation without messages and subject,
\* gateway unreachable).
Initialize ==
    /\ pc = "initialize"
    /\ \E outcome \in {"ok", "fail"} :
         IF conversation_id = ""
         THEN /\ error' = "conversation_id is required"
              /\ UNCHANGED <<has_context, available_tools, response, escalation_reason>>
         ELSE IF outcome = "ok"
         THEN /\ has_context' = TRUE
              /\ available_tools' = MCPTools
              /\ error' = NONE
              /\ UNCHANGED <<response, escalation_reason>>
         ELSE /\ error' = "Initialization failed"
              /\ escalation_reason' = "Initialization failed"
              /\ response' = "canned"
              /\ UNCHANGED <<has_context, available_tools>>
    /\ pc' = route_from_initialize(error')
    /\ UNCHANGED <<cfgVars, actions_rerun, real_writes, selected_procedure, procedure_required_action_tools,
                   hops, actions, actions_taken, draft, validate,
                   response_delivery, escalate, finalize, next_node, token_by>>
    /\ dry_run' = IF conversation_id # "" /\ mode = "test" /\ dry_run = <<>>
                   THEN <<TRUE>> ELSE dry_run

\* ------------------------------------------------------------- Procedure
\* tool kinds as Initialize assigns them
ToolTypeOf(name) == IF name = LINK_TOOL THEN "internal_action" ELSE "gather"

\* _filter_procedure_specific_tools: avail is the capability list, selected
\* the selected procedure (<<>> when none); a procedure record carries the
\* set of restricted tool names its content mentions.
FilterProcedureSpecificTools(avail, selected) ==
    IF avail = {}
    THEN [available_tools |-> avail, stores_required |-> FALSE, required |-> {}]
    ELSE IF selected = <<>>
    THEN [available_tools |-> avail \ PROCEDURE_SPECIFIC_TOOLS,
          stores_required |-> TRUE, required |-> {}]
    ELSE LET authorized == PROCEDURE_SPECIFIC_TOOLS \cap selected[1].mentions
         IN [available_tools |-> avail \ (PROCEDURE_SPECIFIC_TOOLS \ authorized),
             stores_required |-> TRUE,
             required |-> {t \in authorized \cap avail : ToolTypeOf(t) = "action"}]

\* outcome "skip": procedure_id given as empty; "match": a procedure is
\* selected (found by id or by the select endpoint); "none": no match;
\* "fail": an exception inside the stage before a procedure is selected;
\* "fail_after_match": an exception after the selection was stored and the
\* tools were filtered for it.

\* variant: the exception handler leaves the state as the failure found it
ProcedureNodeNoHandler(outcome, mentions, avail, required) ==
    LET sel == IF outcome \in {"match", "fail_after_match"}
               THEN <<[mentions |-> mentions]>> ELSE <<>>
        f == FilterProcedureSpecificTools(avail, sel)
    IN [selected_procedure |-> sel,
        available_tools |-> IF outcome = "skip" THEN avail ELSE f.available_tools,
        procedure_required_action_tools |->
            IF outcome # "skip" /\ f.stores_required THEN f.required ELSE required]

\* procedure_node: what the stage leaves in the state
ProcedureNode(outcome, mentions, avail, required) ==
    IF outcome = "skip"
    THEN [selected_procedure |-> <<>>, available_tools |-> avail,
          procedure_required_action_tools |-> required]
    ELSE LET sel == IF outcome \in {"match", "fail_after_match"}
                    THEN <<[mentions |-> mentions]>> ELSE <<>>
             f == FilterProcedureSpecificTools(avail, sel)
             req == IF f.stores_required THEN f.required ELSE required
         IN IF outcome = "fail_after_match"
            THEN LET g == FilterProcedureSpecificTools(f.available_tools, <<>>)
                 IN [selected_procedure |-> <<>>,
                     available_tools |-> g.available_tools,
                     procedure_required_action_tools |->
                         IF g.stores_required THEN g.required ELSE req]
            ELSE [selected_procedure |-> sel,
                  available_tools |-> f.available_tools,
                  procedure_required_action_tools |-> req]

ProcedureOutcomes == {"skip", "match", "none", "fail", "fail_after_match"}

Procedure ==
    /\ pc = "procedure"
    /\ \E outcome \in ProcedureOutcomes, mentions \in {{}, {RESET_TOOL}} :
         LET p == ProcedureNode(outcome, mentions, available_tools,
                                procedure_required_action_tools)
         IN /\ selected_procedure' = p.selected_procedure
            /\ available_tools' = p.available_tools
            /\ procedure_required_action_tools' = p.procedure_required_action_tools
    /\ pc' = "plan"
    /\ UNCHANGED <<cfgVars, actions_rerun, dry_run, has_context, hops, actions, actions_taken, draft,
                   response, validate, response_delivery, escalate, finalize,
                   error, next_node, escalation_reason, token_by>>
    /\ real_writes' = real_writes \cup
           RealWritesUnderDryRun("procedure", <<StateDryRun(dry_run)>>)

\* ------------------------------------------------------------------ Plan
\* The Plan stage appends the record of a new hop, numbered by its position,
\* holding the planned gather calls and the proposed action tools, which are
\* the action-kind tools of the capability list it chooses; a failed
\* generation sets the error.
ActionKindTools(avail) == {t \in avail : ToolTypeOf(t) # "gather"}

\* the plans the generation service is taken to return: one gather call
\* with every action-kind tool proposed, or nothing to gather and nothing
\* proposed
PlanChoices(avail) ==
    {[gather_tool_calls |-> 1, action_tool_calls |-> ActionKindTools(avail)],
     [gather_tool_calls |-> 0, action_tool_calls |-> {}]}

Plan ==
    /\ pc = "plan"
    /\ \E outcome \in {"ok", "fail"}, plan \in PlanChoices(available_tools) :
         IF outcome = "ok"
         THEN /\ hops' = Append(hops,
                     [hop_number |-> Len(hops) + 1,
                      plan |-> plan,
                      gather |-> <<>>,
                      coverage |-> <<>>])
              /\ UNCHANGED error
         ELSE /\ error' = "Plan generation failed"
              /\ UNCHANGED hops
    /\ pc' = route_from_plan(error')
    /\ UNCHANGED <<cfgVars, actions_rerun, dry_run, real_writes, has_context, available_tools, selected_procedure,
                   procedure_required_action_tools, actions, actions_taken,
                   draft, response, validate, response_delivery, escalate,
                   finalize, next_node, escalation_reason, token_by>>

\* ---------------------------------------------------------------- Gather
\* Every planned call yields one result, failed or not; "fail": the
\* tool-gateway client cannot be created (stage-level failure).
\* A run is followed until its hop log has outgrown max_hops; the hop that
\* overruns is appended by Plan and not executed.
\* variant: the empty record counts as a failed gather
EmptyGatherDataFailed ==
    [n_results |-> 0, success_rate |-> "0.0", execution_status |-> "failed"]

\* the record of a hop without planned gather calls.  success_rate is kept
\* as text: the calls of a non-empty gather are not followed one by one, so
\* its rate stays the symbolic share of successful calls.
EmptyGatherData ==
    [n_results |-> 0, success_rate |-> "1.0", execution_status |-> "completed"]

Gather ==
    /\ pc = "gather"
    /\ Len(hops) <= max_hops
    /\ IF Len(hops) = 0
       THEN /\ error' = "No current hop data found"
            /\ UNCHANGED <<hops, next_node, escalation_reason, token_by>>
       ELSE LET cur == hops[current_hop_index(hops)]
                n == cur.plan.gather_tool_calls
            IN IF n = 0
               THEN /\ hops' = [hops EXCEPT ![current_hop_index(hops)].gather = <<EmptyGatherData>>]
                    /\ UNCHANGED <<error, next_node, escalation_reason, token_by>>
               ELSE \E outcome \in {"ok", "fail"} :
                      IF outcome = "ok"
                      THEN /\ hops' = [hops EXCEPT ![current_hop_index(hops)].gather =
                                          <<[n_results |-> n,
                                             success_rate |-> "successful/total",
                                             execution_status |-> "completed"]>>]
                           /\ UNCHANGED <<error, next_node, escalation_reason, token_by>>
                      ELSE /\ error' = "Gather node error"
                           /\ escalation_reason' = "Gather node error"
                           /\ next_node' = "escalate"
                           /\ token_by' = "gather"
                           /\ UNCHANGED hops
    /\ pc' = route_from_gather(error')
    /\ UNCHANGED <<cfgVars, actions_rerun, dry_run, real_writes, has_context, available_tools, selected_procedure,
                   procedure_required_action_tools, actions, actions_taken,
                   draft, response, validate, response_delivery, escalate,
                   finalize>>

\* -------------------------------------------------------------- Coverage
\* What one structured-generation call of Coverage can give back: a parsed
\* CoverageResponse ("ok"), output that fails the response schema
\* ("malformed"), or a failure of the call itself ("transport").
\* next_action is a free string in the schema; OtherToken stands for any
\* value outside the four the stage knows.
OtherToken == "other"

Reply(kind, na, ds, er, ad) ==
    [kind |-> kind, next_action |-> na, data_sufficient |-> ds,
     escalation_reason |-> er, action_decision |-> ad]

Decisions ==
    {<<[action_tool_name |-> t, parameters |-> p]>> :
        t \in ToolNames, p \in {"valid", "invalid"}}

OkReplies ==
    {Reply("ok", na, ds, NONE, <<>>) :
        na \in {"continue", "gather_more", OtherToken}, ds \in BOOLEAN}
    \cup {Reply("ok", "escalate", ds, er, <<>>) :
        ds \in BOOLEAN, er \in {NONE, "model reason"}}
    \cup {Reply("ok", "execute_action", ds, NONE, ad) :
        ds \in BOOLEAN, ad \in {<<>>} \cup Decisions}

FailedReplies ==
    {Reply("malformed", "", FALSE, NONE, <<>>), Reply("transport", "", FALSE, NONE, <<>>)}

\* replies after which the judgement call may be repeated
RetryReplies ==
    {Reply("malformed", "", FALSE, NONE, <<>>)}
    \cup {Reply("ok", "execute_action", FALSE, NONE,
                <<[action_tool_name |-> t, parameters |-> "invalid"]>>) : t \in ToolNames}

\* the replies to the first, second and third call of one Coverage run
ReplySeqs ==
    {<<a>> : a \in OkReplies \cup FailedReplies}
    \cup {<<a, b>> : a \in RetryReplies, b \in OkReplies \cup FailedReplies}
    \cup {<<a, b, c>> : a \in RetryReplies, b \in RetryReplies,
                        c \in OkReplies \cup FailedReplies}

\* the hop-ceiling override at the end of _analyze_coverage
HopCeilingOverride(r, hop_number, mh) ==
    IF ~r.data_sufficient /\ hop_number >= mh
    THEN [r EXCEPT !.next_action = "escalate",
                   !.escalation_reason = "Exceeded maximum hops"]
    ELSE r

\* _analyze_coverage from attempt number `attempt` (0-based) on; `planned`
\* are the names of the enriched action tools, `avail` those with a schema.
\* A reply list that ends before the code stops asking is a failed call.
RECURSIVE AnalyzeCoverage(_, _, _, _, _, _)
AnalyzeCoverage(replies, attempt, hop_number, mh, planned, avail) ==
    LET r == IF attempt + 1 <= Len(replies) THEN replies[attempt + 1]
             ELSE Reply("transport", "", FALSE, NONE, <<>>)
        raise == [raised |-> TRUE, response |-> r, calls |-> attempt + 1,
                  detail |-> ""]
    IN IF r.kind = "transport" THEN raise
       ELSE IF r.kind = "malformed"
       THEN IF attempt >= max_pydantic_retries THEN raise
            ELSE AnalyzeCoverage(replies, attempt + 1, hop_number, mh, planned, avail)
       ELSE IF /\ r.next_action = "execute_action"
               /\ r.action_decision # <<>>
               /\ r.action_decision[1].action_tool_name \in planned \cap avail
       THEN IF r.action_decision[1].parameters = "valid"
            THEN [raised |-> FALSE,
                  response |-> HopCeilingOverride(r, hop_number, mh),
                  calls |-> attempt + 1, detail |-> ""]
            ELSE IF attempt >= max_pydantic_retries
            THEN [raise EXCEPT !.detail = "Action parameter validation failed: "
                                   \o r.action_decision[1].action_tool_name]
            ELSE AnalyzeCoverage(replies, attempt + 1, hop_number, mh, planned, avail)
       ELSE [raised |-> FALSE,
             response |-> HopCeilingOverride(r, hop_number, mh),
             calls |-> attempt + 1, detail |-> ""]

\* variants of the action-ceiling test: off by one, and never true
ActionCeilingReachedLate(taken, ma) == taken > ma

ActionCeilingIgnored(taken, ma) == FALSE

\* the action-ceiling test of the execute_action branch
ActionCeilingReached(taken, ma) == taken >= ma

\* The routing block of coverage_node: from the analysed response to the
\* token the stage writes.  writes = FALSE: no branch assigns next_node.
Decision(writes, tok, sets_reason, reason, r) ==
    [writes |-> writes, token |-> tok, sets_reason |-> sets_reason,
     reason |-> reason, response |-> r]

CoverageRouting(r, hop_number, mh, taken, ma, planned, avail) ==
    IF r.next_action = "gather_more"
    THEN IF hop_number >= mh
         THEN Decision(TRUE, "escalate", TRUE, "Exceeded maximum hops",
                       [r EXCEPT !.next_action = "escalate",
                                 !.escalation_reason = "Exceeded maximum hops"])
         ELSE Decision(TRUE, "plan", FALSE, "", r)
    ELSE IF r.next_action = "execute_action"
    THEN IF ActionCeilingReached(taken, ma) THEN Decision(TRUE, "respond", FALSE, "", r)
         ELSE IF r.action_decision = <<>> THEN Decision(TRUE, "respond", FALSE, "", r)
         ELSE IF r.action_decision[1].action_tool_name \notin planned
              THEN Decision(TRUE, "respond", FALSE, "", r)
         ELSE IF r.action_decision[1].action_tool_name \notin avail
              THEN Decision(TRUE, "respond", FALSE, "", r)
         ELSE IF r.action_decision[1].parameters = "valid"
              THEN Decision(TRUE, "action", FALSE, "", r)
              ELSE Decision(TRUE, "respond", FALSE, "", r)
    ELSE IF r.next_action = "continue" THEN Decision(TRUE, "respond", FALSE, "", r)
    ELSE IF r.next_action = "escalate"
    THEN Decision(TRUE, "escalate", TRUE, r.escalation_reason, r)
    ELSE Decision(FALSE, "", FALSE, "", r)

\* the fields of the dumped response that later stages read
Stored(r) ==
    [action_decision |->
         IF r.action_decision = <<>> THEN <<>>
         ELSE <<[action_tool_name |-> r.action_decision[1].action_tool_name]>>]

\* variant: every tool name counts as planned
PlannedActionToolsAny(plan_tools, required) == ToolNames

\* the action tools Coverage works with: the plan's, plus the
\* procedure-required ones the plan left out
PlannedActionTools(plan_tools, required) == plan_tools \cup required

\* what one Coverage run computes from the replies of the judgement service
CoverageRun(replies, hop_number, mh, taken, ma, plan_tools, required, avail) ==
    LET planned == PlannedActionTools(plan_tools, required)
        res == AnalyzeCoverage(replies, 0, hop_number, mh, planned, avail)
    IN [planned |-> planned, res |-> res,
        d |-> CoverageRouting(res.response, hop_number, mh, taken, ma,
                              planned, avail)]

\* the text of the error and of the escalation reason after a raise
CoverageFailure(detail) ==
    IF detail = "" THEN "Coverage analysis failed"
    ELSE "Coverage analysis failed: " \o detail

Coverage ==
    /\ pc = "coverage"
    /\ IF Len(hops) = 0
       THEN /\ error' = "No current hop data found"
            /\ UNCHANGED <<hops, next_node, escalation_reason, token_by>>
       ELSE IF ~has_context
       THEN /\ error' = "No conversation messages or subject found in state"
            /\ UNCHANGED <<hops, next_node, escalation_reason, token_by>>
       ELSE \E replies \in ReplySeqs :
            LET cur == hops[current_hop_index(hops)]
                hop_number == cur.hop_number
                run == CoverageRun(replies, hop_number, max_hops, actions_taken,
                                   max_actions, cur.plan.action_tool_calls,
                                   procedure_required_action_tools, available_tools)
                planned == run.planned
                res == run.res
                d == run.d
                tok == IF d.writes THEN d.token ELSE next_node
            IN IF res.raised
               THEN /\ error' = CoverageFailure(res.detail)
                    /\ next_node' = "escalate"
                    /\ token_by' = "coverage"
                    /\ escalation_reason' = CoverageFailure(res.detail)
                    /\ hops' = [hops EXCEPT ![current_hop_index(hops)].plan.action_tool_calls = planned]
               ELSE /\ next_node' = tok
                    /\ token_by' = IF d.writes THEN "coverage" ELSE token_by
                    /\ escalation_reason' =
                           IF d.sets_reason THEN d.reason ELSE escalation_reason
                    /\ hops' = [hops EXCEPT
                           ![current_hop_index(hops)].plan.action_tool_calls = planned,
                           ![current_hop_index(hops)].coverage =
                               <<[coverage_response |-> Stored(d.response),
                                  next_node |-> IF tok = ABSENT THEN "end" ELSE tok]>>]
                    /\ UNCHANGED error
    /\ pc' = route_from_coverage(next_node')
    /\ UNCHANGED <<cfgVars, actions_rerun, dry_run, real_writes, has_context, available_tools, selected_procedure,
                   procedure_required_action_tools, actions, actions_taken,
                   draft, response, validate, response_delivery, escalate,
                   finalize>>

\* ---------------------------------------------------------------- Action
\* What the tool's structured result says, as far as review gating reads
\* it: the linking tool reports a match or none, or the text cannot be
\* parsed.
ToolResults == {"match_found", "no_match", "unparsable"}

ActionRequiresReviewAlways(tool_name, result_data) == TRUE

\* _action_requires_review
ActionRequiresReview(tool_name, result_data) ==
    IF tool_name \in NO_ESCALATION_TOOLS THEN FALSE
    ELSE IF tool_name = LINK_TOOL
    THEN IF result_data = "unparsable" THEN TRUE
         ELSE result_data = "match_found"
    ELSE TRUE

ActionRecord(tool_name, success, requires_review, hop_number, timestamp) ==
    [tool_name |-> tool_name, success |-> success,
     requires_review |-> requires_review, hop_number |-> hop_number,
     timestamp |-> timestamp]

\* variant: a reviewable action escalates at once
SuccessTokenReviewEscalates(requires_review) ==
    IF requires_review THEN "escalate" ELSE "coverage"

\* the token written after a successful tool call; the review flag is only
\* recorded, the escalation waits until the reply is sent
SuccessToken(requires_review) == "coverage"

\* outcome "ok": the tool call returns result; "tool_fail": the call raises;
\* "client_fail": creating the gateway client raises, before start_time is
\* bound, so the handler itself raises and the exception leaves the stage.
Action ==
    /\ pc = "action"
    /\ IF Len(hops) = 0
       THEN /\ error' = "No current hop data found"
            /\ pc' = route_from_action(next_node)
            /\ UNCHANGED <<actions, actions_rerun, actions_taken, next_node, escalation_reason, token_by>>
       ELSE IF hops[current_hop_index(hops)].coverage = <<>>
       THEN /\ error' = "No coverage response found"
            /\ pc' = route_from_action(next_node)
            /\ UNCHANGED <<actions, actions_rerun, actions_taken, next_node, escalation_reason, token_by>>
       ELSE IF hops[current_hop_index(hops)].coverage[1].coverage_response.action_decision = <<>>
       THEN /\ error' = "No action decision specified by coverage node"
            /\ pc' = route_from_action(next_node)
            /\ UNCHANGED <<actions, actions_rerun, actions_taken, next_node, escalation_reason, token_by>>
       ELSE \E outcome \in {"ok", "tool_fail", "client_fail"}, result \in ToolResults,
               timestamp \in clocks, timestamp_rerun \in clocks :
            LET cur == hops[current_hop_index(hops)]
                hop_number == cur.hop_number
                tool == cur.coverage[1].coverage_response.action_decision[1].action_tool_name
            IN IF outcome = "client_fail"
               THEN /\ pc' = "crashed"
                    /\ UNCHANGED <<actions, actions_rerun, actions_taken, next_node,
                                   escalation_reason, token_by, error>>
               ELSE /\ IF outcome = "ok"
                       THEN /\ actions' = Append(actions,
                                   ActionRecord(tool, TRUE,
                                       ActionRequiresReview(tool, result),
                                       hop_number, timestamp))
                            /\ actions_rerun' = Append(actions_rerun,
                                   ActionRecord(tool, TRUE,
                                       ActionRequiresReview(tool, result),
                                       hop_number, timestamp_rerun))
                            /\ next_node' = SuccessToken(ActionRequiresReview(tool, result))
                            /\ UNCHANGED escalation_reason
                       ELSE /\ actions' = Append(actions,
                                   ActionRecord(tool, FALSE, TRUE, hop_number,
                                                timestamp))
                            /\ actions_rerun' = Append(actions_rerun,
                                   ActionRecord(tool, FALSE, TRUE, hop_number,
                                                timestamp_rerun))
                            /\ next_node' = "escalate"
                            /\ escalation_reason' = "Action tool failed"
                    /\ actions_taken' = actions_taken + 1
                    /\ token_by' = "action"
                    /\ pc' = route_from_action(next_node')
                    /\ UNCHANGED error
    /\ UNCHANGED <<cfgVars, dry_run, has_context, available_tools, selected_procedure,
                   procedure_required_action_tools, hops, draft, response,
                   validate, response_delivery, escalate, finalize>>
    /\ real_writes' = real_writes \cup
           RealWritesUnderDryRun("action", <<StateDryRun(dry_run)>>)

\* ----------------------------------------------------------------- Draft
\* outcome "REPLY" / "ROUTE_TO_TEAM": the generation returns a draft of that
\* kind with reply text `text`; "fail": generation raises.
Draft ==
    /\ pc = "draft"
    /\ IF ~has_context
       THEN /\ error' = "No conversation messages or subject found in state"
            /\ next_node' = "escalate"
            /\ escalation_reason' = "No conversation messages or subject found in state"
            /\ UNCHANGED <<draft, response>>
       ELSE \E outcome \in {"REPLY", "ROUTE_TO_TEAM", "fail"}, text \in {"text"} :
            IF outcome = "fail"
            THEN /\ draft' = <<[response_type |-> "REPLY", response |-> ""]>>
                 /\ error' = "Draft generation failed"
                 /\ next_node' = "escalate"
                 /\ escalation_reason' = "Draft generation error"
                 /\ UNCHANGED response
            ELSE /\ draft' = <<[response_type |-> outcome, response |-> text]>>
                 /\ response' = text
                 /\ next_node' = "validate"
                 /\ escalation_reason' =
                        IF outcome = "ROUTE_TO_TEAM"
                        THEN "User needs to speak with the team"
                        ELSE escalation_reason
                 /\ UNCHANGED error
    /\ token_by' = "draft"
    /\ pc' = route_from_draft(next_node')
    /\ UNCHANGED <<cfgVars, actions_rerun, dry_run, real_writes, has_context, available_tools, selected_procedure,
                   procedure_required_action_tools, hops, actions,
                   actions_taken, validate, response_delivery, escalate,
                   finalize>>

\* -------------------------------------------------------------- Validate
\* variant of the retry test: off by one
RetryAllowedOnceMore(current_retry_count, max_retries) == current_retry_count <= max_retries

\* the retry test of validate_node
RetryAllowed(current_retry_count, max_retries) == current_retry_count < max_retries

\* variant: a failed verdict is never sent back to Draft
ValidateRoutingNoRetry(overall_passed, current_retry_count, max_retries) ==
    IF overall_passed THEN "response" ELSE "escalate"

\* the routing block of validate_node for a parsed verdict
ValidateRouting(overall_passed, current_retry_count, max_retries) ==
    IF overall_passed THEN "response"
    ELSE IF RetryAllowed(current_retry_count, max_retries) THEN "draft"
    ELSE "escalate"

ValidateRecord(passed, next_action, retry_count, reason) ==
    [overall_passed |-> passed, next_action |-> next_action,
     retry_count |-> retry_count, escalation_reason |-> reason]

\* verdict "pass" / "fail": the validator answers; "error": the call fails
\* or its answer lacks overall_passed.  An empty reply text is an error
\* before the validator is asked.
Validate ==
    /\ pc = "validate"
    /\ \E verdict \in {"pass", "fail", "error"} :
         LET current_retry_count == Len(validate)
         IN IF response = "" \/ verdict = "error"
            THEN /\ error' = "Validation error"
                 /\ next_node' = "escalate"
                 /\ escalation_reason' = "Validation error"
                 /\ validate' = Append(validate,
                        ValidateRecord(FALSE, "escalate", current_retry_count,
                                       "Validation error"))
            ELSE LET tok == ValidateRouting(verdict = "pass", current_retry_count,
                                            max_validation_retries)
                     reason == IF tok = "escalate" THEN "Validation failed after retries"
                               ELSE NONE
                 IN /\ next_node' = tok
                    /\ escalation_reason' =
                           IF tok = "escalate" THEN reason ELSE escalation_reason
                    /\ validate' = Append(validate,
                           ValidateRecord(verdict = "pass", tok, current_retry_count, reason))
                    /\ UNCHANGED error
    /\ token_by' = "validate"
    /\ pc' = route_from_validate(next_node')
    /\ UNCHANGED <<cfgVars, actions_rerun, dry_run, has_context, available_tools, selected_procedure,
                   procedure_required_action_tools, hops, actions,
                   actions_taken, draft, response, response_delivery,
                   escalate, finalize>>
    /\ real_writes' = real_writes \cup
           RealWritesUnderDryRun("validate", <<StateDryRun(dry_run)>>)

\* -------------------------------------------------------------- Response
\* ", ".join(names)
RECURSIVE JoinNames(_)
JoinNames(names) ==
    IF names = <<>> THEN ""
    ELSE IF Len(names) = 1 THEN names[1]
    ELSE names[1] \o ", " \o JoinNames(Tail(names))

\* the tool names of the action records that require review, in log order
RECURSIVE ReviewNames(_)
ReviewNames(action_log) ==
    IF action_log = <<>> THEN <<>>
    ELSE IF Head(action_log).requires_review
    THEN <<Head(action_log).tool_name>> \o ReviewNames(Tail(action_log))
    ELSE ReviewNames(Tail(action_log))

\* the reason text of an action-review escalation
ReviewReason(action_log) ==
    "Action tools made changes requiring review: "
        \o JoinNames(ReviewNames(action_log)) \o ". Human verification needed."

\* variant: action review is tested before the draft kind
ResponseRoutingReviewFirst(tok, delivered, draft_rec, action_log) ==
    LET from_draft == draft_rec # <<>> /\ draft_rec[1].response_type = "ROUTE_TO_TEAM"
        from_actions == \E i \in 1..Len(action_log) : action_log[i].requires_review
    IN IF tok = "escalate"
       THEN [writes |-> FALSE, token |-> tok, sets_reason |-> FALSE]
       ELSE IF ~delivered
       THEN [writes |-> TRUE, token |-> "escalate", sets_reason |-> FALSE]
       ELSE IF from_actions
       THEN [writes |-> TRUE, token |-> "escalate", sets_reason |-> TRUE]
       ELSE IF from_draft
       THEN [writes |-> TRUE, token |-> "escalate", sets_reason |-> FALSE]
       ELSE [writes |-> TRUE, token |-> "finalize", sets_reason |-> FALSE]

\* the post-delivery routing block of response_node; tok is the token after
\* the delivery attempt.  writes = FALSE: the token is left as it is.
ResponseRouting(tok, delivered, draft_rec, action_log) ==
    LET from_draft == draft_rec # <<>> /\ draft_rec[1].response_type = "ROUTE_TO_TEAM"
        from_actions == \E i \in 1..Len(action_log) : action_log[i].requires_review
    IN IF tok = "escalate"
       THEN [writes |-> FALSE, token |-> tok, sets_reason |-> FALSE]
       ELSE IF ~delivered
       THEN [writes |-> TRUE, token |-> "escalate", sets_reason |-> FALSE]
       ELSE IF from_draft
       THEN [writes |-> TRUE, token |-> "escalate", sets_reason |-> FALSE]
       ELSE IF from_actions
       THEN [writes |-> TRUE, token |-> "escalate", sets_reason |-> TRUE]
       ELSE [writes |-> TRUE, token |-> "finalize", sets_reason |-> FALSE]

\* send "sent": the ticketing backend accepts the message; "fail": it raises
\* or returns nothing.  Without reply text, conversation id or admin id the
\* stage fails before sending.
Response ==
    /\ pc = "response"
    /\ \E send \in {"sent", "fail"} :
         LET delivered == /\ response # ""
                          /\ conversation_id # ""
                          /\ melvin_admin_id # ""
                          /\ send = "sent"
             tok1 == IF delivered THEN next_node ELSE "escalate"
             d == ResponseRouting(tok1, delivered, draft, actions)
         IN /\ response_delivery' =
                   <<[success |-> delivered, intercom_delivered |-> delivered]>>
            /\ error' = IF delivered THEN error ELSE "Failed to deliver response"
            /\ next_node' = d.token
            /\ token_by' = IF ~delivered \/ d.writes THEN "response" ELSE token_by
            /\ escalation_reason' =
                   IF d.sets_reason THEN ReviewReason(actions)
                   ELSE IF ~delivered THEN "Failed to deliver response"
                   ELSE escalation_reason
    /\ pc' = route_from_response(next_node')
    /\ UNCHANGED <<cfgVars, actions_rerun, dry_run, has_context, available_tools, selected_procedure,
                   procedure_required_action_tools, hops, actions,
                   actions_taken, draft, response, validate, escalate,
                   finalize>>
    /\ real_writes' = real_writes \cup
           RealWritesUnderDryRun("response", <<StateDryRun(dry_run)>>)

\* -------------------------------------------------------------- Escalate
\* dict.get on a stored record: None when the key is not there
RecGet(rec, key) == IF key \in DOMAIN rec THEN rec[key] ELSE NONE

\* sub in s
Contains(s, sub) ==
    \E i \in 1..(Len(s) - Len(sub) + 1) : SubSeq(s, i, i + Len(sub) - 1) = sub

\* "action" in reason.lower(), for the spellings the reason texts use
MentionsAction(reason) == Contains(reason, "action") \/ Contains(reason, "Action")

\* reason texts that contain "requested to talk to a human"
HumanRequestReasons == {"User requested to talk to a human"}

\* variant: the route-to-human draft is tested first
DetermineEscalationSourceDraftFirst(taken, reason, draft_rec, validations, hop_log, err) ==
    IF draft_rec # <<>> /\ draft_rec[1].response_type = "ROUTE_TO_TEAM" THEN "draft"
    ELSE IF taken > 0 /\ MentionsAction(reason) THEN "action"
    ELSE IF Len(validations) > 0 /\ ~validations[Len(validations)].overall_passed
    THEN "validate"
    ELSE "unknown"

\* _determine_escalation_source; reason is a text (the caller has made sure
\* it is not None where the text is read)
DetermineEscalationSource(taken, reason, draft_rec, validations, hop_log, err) ==
    IF taken > 0 /\ MentionsAction(reason) THEN "action"
    ELSE IF draft_rec # <<>> /\ draft_rec[1].response_type = "ROUTE_TO_TEAM" THEN "draft"
    ELSE IF Len(validations) > 0 /\ ~validations[Len(validations)].overall_passed
    THEN "validate"
    ELSE IF /\ Len(hop_log) > 0
            /\ hop_log[Len(hop_log)].coverage # <<>>
            /\ RecGet(hop_log[Len(hop_log)].coverage[1], "next_action") = "escalate"
    THEN "coverage"
    ELSE IF draft_rec # <<>> /\ Truthy(RecGet(draft_rec[1], "error")) THEN "draft"
    ELSE IF Truthy(err) /\ Len(hop_log) = 0 THEN "initialization"
    ELSE "unknown"

\* note "posted" / "fail": the ticketing backend accepts the note or raises.
\* With actions taken and a None reason the source lookup calls .lower() on
\* None and the exception leaves the stage.
Escalate ==
    /\ pc = "escalate"
    /\ IF actions_taken > 0 /\ escalation_reason = NONE
       THEN /\ pc' = "crashed"
            /\ UNCHANGED <<escalate, next_node, token_by, real_writes>>
       ELSE \E note \in {"posted", "fail"} :
            LET reason == IF escalation_reason = ABSENT
                          THEN "Unknown escalation reason" ELSE escalation_reason
                source == DetermineEscalationSource(actions_taken,
                              IF escalation_reason = ABSENT THEN "" ELSE escalation_reason,
                              draft, validate, hops, error)
                skipped == conversation_id = "" \/ melvin_admin_id = ""
            IN /\ escalate' = <<[escalation_reason |-> reason,
                                 escalation_source |-> source,
                                 note_added |-> ~skipped /\ note = "posted"]>>
               /\ next_node' = IF skipped THEN "end" ELSE "finalize"
               /\ token_by' = "escalate"
               /\ pc' = "finalize"
               /\ real_writes' = real_writes \cup
                      IF ~skipped /\ note = "posted"
                      THEN RealWritesUnderDryRun("escalate", <<>>)
                      ELSE {}
    /\ UNCHANGED <<cfgVars, actions_rerun, dry_run, has_context, available_tools, selected_procedure,
                   procedure_required_action_tools, hops, actions,
                   actions_taken, draft, response, validate,
                   response_delivery, finalize, error, escalation_reason>>

\* -------------------------------------------------------------- Finalize
\* variant: a delivered reply is tested before the draft kind
DetermineMelvinStatusDeliveryFirst(draft_rec, escalate_rec, reason, delivery) ==
    IF delivery # <<>> /\ delivery[1].intercom_delivered THEN "success"
    ELSE IF draft_rec # <<>> /\ draft_rec[1].response_type = "ROUTE_TO_TEAM"
    THEN "route_to_team"
    ELSE "error"

\* _determine_melvin_status; as above the reason is a text
DetermineMelvinStatus(draft_rec, escalate_rec, reason, delivery) ==
    IF draft_rec # <<>> /\ draft_rec[1].response_type = "ROUTE_TO_TEAM"
    THEN "route_to_team"
    ELSE IF escalate_rec # <<>>
    THEN LET source == escalate_rec[1].escalation_source
         IN IF source = "action" THEN "route_to_team"
            ELSE IF reason \in HumanRequestReasons THEN "route_to_team"
            ELSE IF source = "validate" THEN "validation_failed"
            ELSE IF source = "draft" THEN "route_to_team"
            ELSE IF source = "coverage" THEN "route_to_team"
            ELSE "error"
    ELSE IF delivery # <<>>
    THEN IF delivery[1].intercom_delivered THEN "success" ELSE "message_failed"
    ELSE "error"

\* The status and snooze writes are best effort and leave no trace in the
\* routing; a None reason read by the status lookup raises out of the stage.
Finalize ==
    /\ pc = "finalize"
    /\ IF /\ ~(draft # <<>> /\ draft[1].response_type = "ROUTE_TO_TEAM")
          /\ escalate # <<>>
          /\ escalate[1].escalation_source # "action"
          /\ escalation_reason = NONE
       THEN /\ pc' = "crashed"
            /\ UNCHANGED <<finalize, next_node, token_by>>
       ELSE /\ finalize' = <<[melvin_status |->
                   DetermineMelvinStatus(draft, escalate,
                       IF escalation_reason = ABSENT THEN "" ELSE escalation_reason,
                       response_delivery)]>>
            /\ next_node' = "end"
            /\ token_by' = "finalize"
            /\ pc' = "END"
    /\ UNCHANGED <<cfgVars, actions_rerun, dry_run, has_context, available_tools, selected_procedure,
                   procedure_required_action_tools, hops, actions,
                   actions_taken, draft, response, validate,
                   response_delivery, escalate, error, escalation_reason>>
    /\ real_writes' = real_writes \cup
           RealWritesUnderDryRun("finalize", <<StateDryRun(dry_run)>>)

\* ------------------------------------------------------------------ Next
Next ==
    \/ Initialize
    \/ Procedure
    \/ Plan
    \/ Gather
    \/ Coverage
    \/ Action
    \/ Draft
    \/ Validate
    \/ Response
    \/ Escalate
    \/ Finalize

Spec == Init /\ [][Next]_vars

\* ------------------------------------------------- Coverage run alone
\* One Coverage run on arguments drawn from the bounded sets: the replies of
\* the judgement service, the hop number, the actions taken so far, the
\* plan's action tools, the procedure-required ones and the tools with a
\* schema.  The workflow state is left as constructed; `next` is the stage
\* the router picks for the token the run leaves.
CoverageCall ==
    /\ analysis = <<>>
    /\ \E replies \in ReplySeqs, hop_number \in 1..MaxHopsCfg,
          taken \in 0..MaxActionsCfg, plan_tools \in SUBSET ToolNames,
          required \in SUBSET ToolNames, avail \in {MCPTools, {LINK_TOOL}} :
          LET run == CoverageRun(replies, hop_number, max_hops, taken,
                                 max_actions, plan_tools, required, avail)
              tok == IF run.res.raised THEN "escalate"
                     ELSE IF run.d.writes THEN run.d.token ELSE next_node
          IN analysis' = <<[replies |-> replies, hop_number |-> hop_number,
                            taken |-> taken, plan_tools |-> plan_tools,
                            required |-> required, avail |-> avail,
                            result |-> run.res, response |-> run.d.response,
                            token |-> tok, next |-> route_from_coverage(tok),
                            error |-> IF run.res.raised
                                      THEN CoverageFailure(run.res.detail)
                                      ELSE error,
                            escalation_reason |->
                                IF run.res.raised
                                THEN CoverageFailure(run.res.detail)
                                ELSE IF run.d.sets_reason THEN run.d.reason
                                ELSE escalation_reason]>>
    /\ UNCHANGED <<pc, conversation_id, melvin_admin_id, has_context,
                   available_tools, selected_procedure,
                   procedure_required_action_tools, hops, max_hops, actions,
                   actions_taken, max_actions, max_validation_retries, draft,
                   response, validate, response_delivery, escalate, finalize,
                   error, next_node, escalation_reason, token_by, mode,
                   dry_run, env_dry_run, real_writes, clocks, actions_rerun,
                   parked>>

\* the ceilings are the only configuration a Coverage run reads
InitCoverage ==
    /\ Init
    /\ conversation_id = "conv"
    /\ melvin_admin_id = "admin"
    /\ max_validation_retries = 0

SpecCoverage == InitCoverage /\ [][CoverageCall]_vars

\* ------------------------------------------- single calls of a function
\* One call of _action_requires_review, or one execution of gather_node's
\* loop and merge, on arguments drawn from the bounded sets.  The workflow
\* state is left as constructed and the outcome is kept in `analysis`.

\* action tools the review gate may be asked about: the allow-list, the
\* linking tool and a tool that is neither
OTHER_TOOL == "some_other_action_tool"

ReviewedTools == NO_ESCALATION_TOOLS \cup {LINK_TOOL, OTHER_TOOL}

ReviewCall ==
    /\ analysis = <<>>
    /\ \E tool_name \in ReviewedTools, result_data \in ToolResults :
          analysis' = <<[op |-> "requires_review", tool_name |-> tool_name,
                         result_data |-> result_data,
                         requires_review |->
                             ActionRequiresReview(tool_name, result_data)]>>
    /\ UNCHANGED <<pc, conversation_id, melvin_admin_id, has_context,
                   available_tools, selected_procedure,
                   procedure_required_action_tools, hops, max_hops, actions,
                   actions_taken, max_actions, max_validation_retries, draft,
                   response, validate, response_delivery, escalate, finalize,
                   error, next_node, escalation_reason, token_by, mode,
                   dry_run, env_dry_run, real_writes, clocks, actions_rerun,
                   parked>>

\* The data a gather tool returns, as far as the merge reads it: whether it
\* is a list, and whether it is empty.  A value that is not a list (a dict)
\* is named by `id`, the empty dict by ""; a list holds its items in `v`.
Atom(id) == [list |-> FALSE, id |-> id, v |-> <<>>]

List(items) == [list |-> TRUE, id |-> "", v |-> items]

\* Python's truth value of a result's data
DataTruthy(d) == IF d.list THEN Len(d.v) > 0 ELSE d.id # ""

GatherDataShapes ==
    {Atom("a"), Atom(""), List(<<>>), List(<<Atom("b")>>),
     List(<<Atom("b"), Atom("c")>>)}

DOCS_TOOL == "search_talent_docs"
PLAIN_TOOL == "get_referee_applications"

GatherTools == {DOCS_TOOL, PLAIN_TOOL}

\* a planned call and what executing it does: the tool returns data ("ok"),
\* the tool raises ("fail"), or the planned call does not validate as a
\* ToolCall ("invalid")
GatherCalls ==
    [tool_name : GatherTools, outcome : {"ok"}, data : GatherDataShapes]
    \cup [tool_name : GatherTools, outcome : {"fail"}, data : {Atom("")}]
    \cup [tool_name : {PLAIN_TOOL}, outcome : {"invalid"}, data : {Atom("")}]

MaxCallsCfg == 3

GatherPlans == UNION {[1..k -> GatherCalls] : k \in 0..MaxCallsCfg}

\* the ToolResult one pass of the loop appends
GatherResult(call) ==
    IF call.outcome = "ok"
    THEN [tool_name |-> call.tool_name, success |-> TRUE, data |-> <<call.data>>]
    ELSE IF call.outcome = "fail"
    THEN [tool_name |-> call.tool_name, success |-> FALSE, data |-> <<>>]
    ELSE [tool_name |-> "unknown", success |-> FALSE, data |-> <<>>]

GatherResultsSuccessfulOnly(calls) ==
    SelectSeq([i \in 1..Len(calls) |-> GatherResult(calls[i])],
              LAMBDA r : r.success)

\* the loop over the planned calls
GatherResults(calls) == [i \in 1..Len(calls) |-> GatherResult(calls[i])]

\* the accumulation of a tool's results in tool_data: the first result is
\* stored as it is; a later one is appended to the entry when the entry is a
\* list and to a new list holding the entry otherwise
MergeToolData(existing, data) ==
    IF existing = <<>> THEN <<data>>
    ELSE LET e == existing[1]
             lst == IF e.list THEN e.v ELSE <<e>>
         IN <<List(Append(lst, data))>>

\* the query a docs result is filed under
DocsQuery(d) ==
    IF ~d.list THEN d.id
    ELSE IF Len(d.v) > 0 THEN d.v[1].id ELSE "unknown_query"

\* docs_data with the entry of `key` set to `data`
PutDocs(docs_data, key, data) ==
    {e \in docs_data : e.key # key} \cup {[key |-> key, data |-> data]}

\* the merge of the results into tool_data and docs_data
RECURSIVE StoreResults(_, _, _, _)
StoreResults(tool_data, docs_data, results, current_hop) ==
    IF results = <<>> THEN [tool_data |-> tool_data, docs_data |-> docs_data]
    ELSE LET r == Head(results)
         IN IF r.success /\ r.data # <<>> /\ DataTruthy(r.data[1])
            THEN IF r.tool_name = DOCS_TOOL
                 THEN StoreResults(tool_data,
                          PutDocs(docs_data,
                                  <<DocsQuery(r.data[1]), current_hop>>,
                                  r.data[1]),
                          Tail(results), current_hop)
                 ELSE StoreResults(MergeToolData(tool_data, r.data[1]),
                                   docs_data, Tail(results), current_hop)
            ELSE StoreResults(tool_data, docs_data, Tail(results), current_hop)

\* gather_node on a hop whose plan holds `plan`, in a state without
\* accumulated data; `client` tells whether the MCP client could be created.
\* tool_data is the entry of the one tool that is not the docs search.
GatherCall ==
    /\ analysis = <<>>
    /\ \E plan \in GatherPlans, client \in {"ok", "fail"} :
          LET results == GatherResults(plan)
              stored == StoreResults(<<>>, {}, results, 1)
              failed == plan # <<>> /\ client = "fail"
              err == IF failed THEN "Gather node error" ELSE error
          IN analysis' = <<[op |-> "gather", plan |-> plan, client |-> client,
                            tool_results |-> IF failed THEN <<>> ELSE results,
                            tool_data |-> IF failed THEN <<>> ELSE stored.tool_data,
                            docs_data |-> IF failed THEN {} ELSE stored.docs_data,
                            error |-> err,
                            next |-> route_from_gather(err)]>>
    /\ UNCHANGED <<pc, conversation_id, melvin_admin_id, has_context,
                   available_tools, selected_procedure,
                   procedure_required_action_tools, hops, max_hops, actions,
                   actions_taken, max_actions, max_validation_retries, draft,
                   response, validate, response_delivery, escalate, finalize,
                   error, next_node, escalation_reason, token_by, mode,
                   dry_run, env_dry_run, real_writes, clocks, actions_rerun,
                   parked>>

\* procedure_node on a drawn capability list; the edge to Plan has no
\* condition
ProcedureCall ==
    /\ analysis = <<>>
    /\ \E outcome \in ProcedureOutcomes, mentions \in {{}, {RESET_TOOL}},
          avail \in SUBSET (MCPTools \cup {ROUTE_TOOL}) :
          LET p == ProcedureNode(outcome, mentions, avail,
                                 procedure_required_action_tools)
          IN analysis' = <<[op |-> "procedure", outcome |-> outcome,
                            mentions |-> mentions, avail |-> avail,
                            selected_procedure |-> p.selected_procedure,
                            available_tools |-> p.available_tools,
                            procedure_required_action_tools |->
                                p.procedure_required_action_tools,
                            error |-> error, next |-> "plan"]>>
    /\ UNCHANGED <<pc, conversation_id, melvin_admin_id, has_context,
                   available_tools, selected_procedure,
                   procedure_required_action_tools, hops, max_hops, actions,
                   actions_taken, max_actions, max_validation_retries, draft,
                   response, validate, response_delivery, escalate, finalize,
                   error, next_node, escalation_reason, token_by, mode,
                   dry_run, env_dry_run, real_writes, clocks, actions_rerun,
                   parked>>

\* what _determine_escalation_source can find in the state: a reason text
\* (the draft's and the judgement's reasons are free text), a draft of
\* either kind or none, a last validation that passed or failed or none, a
\* last hop whose Coverage record routed to escalate or to the draft or is
\* missing, and an error or none
SourceReasons ==
    {"", "User needs to speak with the team",
     "Action tools made changes requiring review", "Validation failed"}

SourceDrafts ==
    {<<>>, <<[response_type |-> "REPLY", response |-> "text"]>>,
     <<[response_type |-> "ROUTE_TO_TEAM", response |-> "text"]>>}

SourceValidations ==
    {<<>>, <<[overall_passed |-> TRUE]>>, <<[overall_passed |-> FALSE]>>,
     <<[overall_passed |-> FALSE], [overall_passed |-> TRUE]>>}

SourceHop(coverage) ==
    [plan |-> [gather_tool_calls |-> 0, action_tool_calls |-> {}],
     hop_number |-> 1, gather |-> <<EmptyGatherData>>, coverage |-> coverage]

SourceHopLogs ==
    {<<>>, <<SourceHop(<<>>)>>} \cup
    {<<SourceHop(<<[coverage_response |-> [action_decision |-> <<>>],
                    next_node |-> n]>>)>> : n \in {"escalate", "respond"}}

EscalationSourceCall ==
    /\ analysis = <<>>
    /\ \E taken \in 0..1, reason \in SourceReasons, draft_rec \in SourceDrafts,
          validations \in SourceValidations, hop_log \in SourceHopLogs,
          err \in {NONE, "Initialization failed"} :
          analysis' = <<[op |-> "escalation_source", taken |-> taken,
                         reason |-> reason, draft |-> draft_rec,
                         validate |-> validations, hops |-> hop_log,
                         error |-> err,
                         source |-> DetermineEscalationSource(taken, reason,
                                        draft_rec, validations, hop_log, err)]>>
    /\ UNCHANGED <<pc, conversation_id, melvin_admin_id, has_context,
                   available_tools, selected_procedure,
                   procedure_required_action_tools, hops, max_hops, actions,
                   actions_taken, max_actions, max_validation_retries, draft,
                   response, validate, response_delivery, escalate, finalize,
                   error, next_node, escalation_reason, token_by, mode,
                   dry_run, env_dry_run, real_writes, clocks, actions_rerun,
                   parked>>

\* The parameters of an action tool call, as far as the runtime values go:
\* conversation_id and dry_run, each absent (<<>>) or present (<<value>>).
ToolParams(conversation_id_param, dry_run_param) ==
    [conversation_id |-> conversation_id_param, dry_run |-> dry_run_param]

\* sanitize_tool_params: every schema property named in the injection map
\* is replaced by the map's value; for a tool of an action type the map also
\* gets dry_run, read from the DRY_RUN environment variable
SanitizeToolParams(params, properties, run_conversation_id, is_action_tool, env) ==
    [conversation_id |->
         IF "conversation_id" \in properties
         THEN <<run_conversation_id>> ELSE params.conversation_id,
     dry_run |->
         IF is_action_tool /\ "dry_run" \in properties
         THEN <<env>> ELSE params.dry_run]

\* action_node: the run's conversation id is written over the parameter
\* when the run has one
InjectConversationId(params, run_conversation_id) ==
    IF run_conversation_id # ""
    THEN [params EXCEPT !.conversation_id = <<run_conversation_id>>]
    ELSE params

\* _execute_action_tool: dry_run is set when the state's flag is true and
\* left as it came otherwise
ExecuteActionToolParams(params, flag) ==
    IF StateDryRun(flag) THEN [params EXCEPT !.dry_run = <<TRUE>>] ELSE params

\* the parameters the tool is called with, from those the judgement gave:
\* sanitized in _analyze_coverage (no tool type passed) and in coverage_node
\* (with the tool type), then injected in action_node
ActionToolCallParams(params, properties, run_conversation_id, is_action_tool, env, flag) ==
    LET s1 == SanitizeToolParams(params, properties, run_conversation_id, FALSE, env)
        s2 == SanitizeToolParams(s1, properties, run_conversation_id,
                                 is_action_tool, env)
    IN ExecuteActionToolParams(InjectConversationId(s2, run_conversation_id), flag)

ActionParamsCall ==
    /\ analysis = <<>>
    /\ \E model_conversation_id \in {<<>>, <<"conv">>, <<"other">>},
          model_dry_run \in {<<>>, <<TRUE>>, <<FALSE>>},
          properties \in SUBSET {"conversation_id", "dry_run"},
          is_action_tool \in BOOLEAN, env \in BOOLEAN,
          flag \in {<<>>, <<TRUE>>, <<FALSE>>} :
          analysis' = <<[op |-> "action_params",
                         given |-> ToolParams(model_conversation_id, model_dry_run),
                         properties |-> properties,
                         is_action_tool |-> is_action_tool,
                         env |-> env, flag |-> flag,
                         run_conversation_id |-> "conv",
                         sent |-> ActionToolCallParams(
                                      ToolParams(model_conversation_id, model_dry_run),
                                      properties, "conv", is_action_tool, env, flag)]>>
    /\ UNCHANGED <<pc, conversation_id, melvin_admin_id, has_context,
                   available_tools, selected_procedure,
                   procedure_required_action_tools, hops, max_hops, actions,
                   actions_taken, max_actions, max_validation_retries, draft,
                   response, validate, response_delivery, escalate, finalize,
                   error, next_node, escalation_reason, token_by, mode,
                   dry_run, env_dry_run, real_writes, clocks, actions_rerun,
                   parked>>

NextCalls ==
    \/ ReviewCall
    \/ GatherCall
    \/ ProcedureCall
    \/ EscalationSourceCall
    \/ ActionParamsCall

InitCalls ==
    /\ Init
    /\ conversation_id = "conv"
    /\ melvin_admin_id = "admin"
    /\ max_hops = 1
    /\ max_actions = 0
    /\ max_validation_retries = 0

SpecCalls == InitCalls /\ [][NextCalls]_vars

\* ------------------------------------------------------------- dry run
\* runs whose dry-run flag is true, set by the caller or by test mode
InitDryRun ==
    /\ InitWorkflow
    /\ conversation_id = "conv"
    /\ melvin_admin_id = "admin"
    /\ \/ mode = "test" /\ dry_run = <<>>
       \/ mode = "production" /\ dry_run = <<TRUE>>
    /\ env_dry_run \in BOOLEAN
    /\ clocks = {0}
    /\ parked = <<>>

SpecDryRun == InitDryRun /\ [][Next]_vars

\* --------------------------------------------------------------- batch
\* The batch driver runs each conversation in a worker with a graph and a
\* state of its own; the workers' stage executions interleave.  Switch hands
\* the processor to the other worker: its state becomes the current one and
\* the current one is set aside.  The environment (DRY_RUN, the clock) is
\* the process's and stays.
Switch ==
    /\ parked # <<>>
    /\ parked[1].pc \notin {"END", "crashed"}
    /\ parked' = <<RunState>>
    /\ pc' = parked[1].pc
    /\ conversation_id' = parked[1].conversation_id
    /\ melvin_admin_id' = parked[1].melvin_admin_id
    /\ has_context' = parked[1].has_context
    /\ available_tools' = parked[1].available_tools
    /\ selected_procedure' = parked[1].selected_procedure
    /\ procedure_required_action_tools' = parked[1].procedure_required_action_tools
    /\ hops' = parked[1].hops
    /\ max_hops' = parked[1].max_hops
    /\ actions' = parked[1].actions
    /\ actions_taken' = parked[1].actions_taken
    /\ max_actions' = parked[1].max_actions
    /\ max_validation_retries' = parked[1].max_validation_retries
    /\ draft' = parked[1].draft
    /\ response' = parked[1].response
    /\ validate' = parked[1].validate
    /\ response_delivery' = parked[1].response_delivery
    /\ escalate' = parked[1].escalate
    /\ finalize' = parked[1].finalize
    /\ error' = parked[1].error
    /\ next_node' = parked[1].next_node
    /\ escalation_reason' = parked[1].escalation_reason
    /\ token_by' = parked[1].token_by
    /\ mode' = parked[1].mode
    /\ dry_run' = parked[1].dry_run
    /\ real_writes' = parked[1].real_writes
    /\ actions_rerun' = parked[1].actions_rerun
    /\ UNCHANGED <<env_dry_run, clocks, analysis>>

NextBatch == Next \/ Switch

InitBatch ==
    /\ InitWorkflow
    /\ conversation_id = StartOfRun.conversation_id
    /\ melvin_admin_id = StartOfRun.melvin_admin_id
    /\ max_hops = StartOfRun.max_hops
    /\ max_validation_retries = StartOfRun.max_validation_retries
    /\ mode = StartOfRun.mode
    /\ dry_run = StartOfRun.dry_run
    /\ env_dry_run = TRUE
    /\ clocks = {0}
    /\ max_actions \in 0..1
    /\ parked = <<StartOfShortRun>>

SpecBatch == InitBatch /\ [][NextBatch]_vars

\* ------------------------------------------------------------ two runs
\* A production run and a second run of the same input on the same external
\* responses, stage by stage: the second run can differ from the first only
\* in what the stages read from the wall clock, so only its action log is
\* kept apart.  The clock gives one of two readings.
InitTwoRuns ==
    /\ InitWorkflow
    /\ conversation_id = "conv"
    /\ melvin_admin_id = "admin"
    /\ max_validation_retries = 0
    /\ mode = "production"
    /\ dry_run = <<>>
    /\ env_dry_run = FALSE
    /\ clocks = {0, 1}
    /\ parked = <<>>

SpecTwoRuns == InitTwoRuns /\ [][Next]_vars

\* ================================================================ claims
\* C1: whenever the graph has reached its terminal state, the state holds a
\* finalize record with a derived status code (no run ends through the
\* Coverage->terminal or Validate->terminal edge without one).
C1_HaltsOnlyAfterFinalize == pc = "END" => finalize # <<>>

\* C2: each loop is left when its ceiling is used up: Plan is never entered
\* with max_hops hops already in the log, Action never with max_actions
\* actions taken, Draft never with more than max_validation_retries
\* validation attempts behind it.
C2_LoopsBoundedByCeilings ==
    /\ pc = "plan" => Len(hops) < max_hops
    /\ pc = "action" => actions_taken < max_actions
    /\ pc = "draft" => Len(validate) <= max_validation_retries

\* C3: the hop_number of every hop record is its 1-based position in the
\* hop log, and the hop log is never longer than max_hops.
C3_HopLogNumberedAndBounded ==
    /\ \A i \in 1..Len(hops) : hops[i].hop_number = i
    /\ Len(hops) <= max_hops

\* C4: actions_taken equals the length of the action log, failed actions
\* included, and the action log is never longer than max_actions.
C4_ActionsCounted ==
    /\ actions_taken = Len(actions)
    /\ Len(actions) <= max_actions

\* a run that used up a ceiling of two with a successful and a failed action
C4_Witness ==
    /\ max_actions = 2
    /\ Len(actions) = 2
    /\ actions[1].success
    /\ ~actions[2].success
    /\ actions_taken = 2

\* C5: the validation-attempt log has at most max_validation_retries + 1
\* records; every Validate call appended exactly one record (the record of
\* the i-th call counts i - 1 earlier attempts), and a record routes back
\* to Draft only if its number of earlier attempts is below
\* max_validation_retries.
C5_ValidationLogBounded ==
    /\ Len(validate) <= max_validation_retries + 1
    /\ \A i \in 1..Len(validate) :
          /\ validate[i].retry_count = i - 1
          /\ validate[i].next_action = "draft" =>
                 validate[i].retry_count < max_validation_retries

\* a run that was sent back to Draft once and then filled the log
C5_Witness ==
    /\ max_validation_retries = 1
    /\ Len(validate) = 2
    /\ validate[1].next_action = "draft"
    /\ validate[2].next_action = "escalate"

\* C6: Respond is entered only by a Validate step whose appended record has
\* overall_passed = TRUE; a Validate step whose record has overall_passed =
\* FALSE leads to Draft or Escalate.
C6_RespondOnlyAfterPass ==
    [][/\ pc' = "response" =>
             (pc = "validate" /\ validate'[Len(validate')].overall_passed)
       /\ (pc = "validate" /\ ~validate'[Len(validate')].overall_passed) =>
             pc' \in {"draft", "escalate"}]_vars

\* Respond entered after a failed and then a passed validation attempt
C6_Witness ==
    /\ pc = "response"
    /\ Len(validate) = 2
    /\ ~validate[1].overall_passed
    /\ validate[2].overall_passed

\* C7: the token Coverage leaves for a hop whose number has reached
\* max_hops (kept in the hop's coverage record) is never plan.
C7_NoPlanAtHopCeiling ==
    \A i \in 1..Len(hops) :
        (hops[i].coverage # <<>> /\ hops[i].hop_number >= max_hops) =>
            hops[i].coverage[1].next_node # "plan"

\* C8: Respond is never entered while the error field is set.
C8_NoRespondWithError == pc = "response" => error = NONE

\* a validator error after a draft: the error is set, no reply has been
\* sent, and the run is on its way to Escalate
C8_Witness ==
    /\ pc = "escalate"
    /\ error = "Validation error"
    /\ draft # <<>>
    /\ response_delivery = <<>>

C10_TokenOverwritten ==
    [][(pc \in TokenRouted /\ pc' # "crashed") => token_by' = pc]_vars

\* C11: in the state a Validate step leaves, the routing follows the
\* appended record: passed -> Respond; failed with fewer earlier attempts
\* than max_validation_retries -> Draft; failed with the retries used up ->
\* Escalate with the standard validation-failed reason; validator error ->
\* Escalate with the error recorded in the state and in the record.
C11_ValidateRouting ==
    token_by = "validate" =>
        LET rec == validate[Len(validate)]
            earlier == Len(validate) - 1
        IN /\ rec.overall_passed =>
                 (pc = "response" /\ next_node = "response" /\ error = NONE)
           /\ (~rec.overall_passed /\ error = NONE
                 /\ earlier < max_validation_retries) =>
                 (pc = "draft" /\ next_node = "draft" /\ rec.next_action = "draft")
           /\ (~rec.overall_passed /\ error = NONE
                 /\ earlier >= max_validation_retries) =>
                 (/\ pc = "escalate"
                  /\ next_node = "escalate"
                  /\ escalation_reason = "Validation failed after retries"
                  /\ rec.escalation_reason = "Validation failed after retries")
           /\ error # NONE =>
                 (/\ pc = "escalate"
                  /\ next_node = "escalate"
                  /\ ~rec.overall_passed
                  /\ error = "Validation error"
                  /\ escalation_reason = "Validation error"
                  /\ rec.escalation_reason = "Validation error")

\* Validate has just escalated a second failed verdict
C11_Witness ==
    /\ token_by = "validate"
    /\ pc = "escalate"
    /\ error = NONE
    /\ Len(validate) = 2
    /\ ~validate[1].overall_passed
    /\ ~validate[2].overall_passed

\* C12: in the state a Respond step leaves, the next stage is Finalize
\* exactly if the reply was delivered, the draft is not route-to-human and
\* no action record requires review, and Escalate otherwise; after a
\* delivered route-to-human draft the draft's reason stands even if an
\* action requires review; an action-review escalation carries a reason
\* that names every reviewable action.
C12_RespondRouting ==
    token_by = "response" =>
        LET delivered == response_delivery[1].intercom_delivered
            route_human == draft # <<>> /\ draft[1].response_type = "ROUTE_TO_TEAM"
            reviewable == {i \in 1..Len(actions) : actions[i].requires_review}
        IN /\ pc \in {"finalize", "escalate"}
           /\ pc = "finalize" <=> (delivered /\ ~route_human /\ reviewable = {})
           /\ ~delivered => pc = "escalate"
           /\ (delivered /\ route_human) =>
                 escalation_reason = "User needs to speak with the team"
           /\ (delivered /\ ~route_human /\ reviewable # {}) =>
                 /\ Contains(escalation_reason, "requiring review")
                 /\ \A i \in reviewable :
                        Contains(escalation_reason, actions[i].tool_name)

\* a delivered route-to-human reply in a run with a reviewable action
C12_Witness ==
    /\ token_by = "response"
    /\ pc = "escalate"
    /\ response_delivery[1].intercom_delivered
    /\ draft[1].response_type = "ROUTE_TO_TEAM"
    /\ \E i \in 1..Len(actions) : actions[i].requires_review

\* C13: a step of Action in which the tool call fails appends exactly one
\* record, with success false and requires_review true, increments
\* actions_taken, and routes to Escalate; from then on Respond never runs
\* and the run halts only with a Finalize record.
C13_FailedActionStep ==
    (pc = "action" /\ token_by' = "action" /\ next_node' = "escalate") =>
        /\ Len(actions') = Len(actions) + 1
        /\ SubSeq(actions', 1, Len(actions)) = actions
        /\ ~actions'[Len(actions')].success
        /\ actions'[Len(actions')].requires_review
        /\ actions_taken' = actions_taken + 1
        /\ pc' = "escalate"

C13_AfterFailedAction ==
    (Len(actions) > 0 /\ ~actions[Len(actions)].success) =>
        /\ pc \in {"escalate", "finalize", "END"}
        /\ response_delivery = <<>>
        /\ pc = "END" => finalize # <<>>

C13_FailedActionEscalates ==
    [][C13_FailedActionStep]_vars /\ []C13_AfterFailedAction

\* a run halted after a failed action
C13_Witness ==
    /\ pc = "END"
    /\ Len(actions) > 0
    /\ ~actions[Len(actions)].success
    /\ finalize # <<>>

\* C14: a step of Action that appends a successful record writes the
\* routing token coverage and hands the run to Coverage, whether or not the
\* new record requires review.
C14_SuccessfulActionStep ==
    (pc = "action" /\ Len(actions') = Len(actions) + 1
                   /\ actions'[Len(actions')].success) =>
        (next_node' = "coverage" /\ pc' = "coverage")

C14_SuccessfulActionToCoverage == [][C14_SuccessfulActionStep]_vars

\* a successful action that requires review has just run
C14_Witness ==
    /\ token_by = "action"
    /\ Len(actions) > 0
    /\ actions[Len(actions)].success
    /\ actions[Len(actions)].requires_review
    /\ pc = "coverage"

C16_ParamsRetriedOnce ==
    analysis # <<>> =>
        LET a == analysis[1]
            invalid(i) ==
                /\ i <= Len(a.replies)
                /\ a.replies[i].kind = "ok"
                /\ a.replies[i].next_action = "execute_action"
                /\ a.replies[i].action_decision # <<>>
                /\ a.replies[i].action_decision[1].action_tool_name
                       \in (a.plan_tools \cup a.required) \cap a.avail
                /\ a.replies[i].action_decision[1].parameters = "invalid"
        IN (invalid(1) /\ invalid(2)) => (a.result.raised /\ a.result.calls = 2)

C18_GreetingRunHalted ==
    /\ pc = "END"
    /\ Len(hops) > 0
    /\ hops[Len(hops)].plan.gather_tool_calls = 0
    /\ hops[Len(hops)].gather # <<>>
    /\ hops[Len(hops)].coverage # <<>>
    /\ hops[Len(hops)].coverage[1].next_node = "respond"
    /\ Len(validate) > 0 /\ validate[Len(validate)].overall_passed
    /\ response_delivery # <<>> /\ response_delivery[1].intercom_delivered

\* every hop without planned gather calls that Gather has handled holds the
\* empty record (no results, rate 1.0, completed), and the run is at
\* Coverage until Coverage has stored its record or failed
C18_EmptyGatherRecord ==
    \A i \in 1..Len(hops) :
        (hops[i].plan.gather_tool_calls = 0 /\ hops[i].gather # <<>>) =>
            /\ hops[i].gather[1].n_results = 0
            /\ hops[i].gather[1].success_rate = "1.0"
            /\ hops[i].gather[1].execution_status = "completed"
            /\ (i = Len(hops) /\ hops[i].coverage = <<>> /\ error = NONE) =>
                   pc = "coverage"

C19_NoRealWriteInDryRun == StateDryRun(dry_run) => real_writes = {}

\* C20: a run that went through Escalate on a fatal path (a stage error, or a
\* ceiling used up) has, when it halts, delivered a reply to the user and
\* posted the escalation note carrying the reason.
C20_FatalPathRepliesAndNotes ==
    (pc = "END" /\ escalate # <<>> /\ finalize # <<>>
        /\ (error # NONE \/ escalate[1].escalation_source \in {"validate", "coverage"})) =>
        /\ response_delivery # <<>>
        /\ response_delivery[1].intercom_delivered
        /\ escalate[1].note_added
        /\ escalate[1].escalation_reason = escalation_reason

\* C21: two runs of the same input on the same external responses end with
\* the same action log.
C21_SameActionLog == pc = "END" => actions_rerun = actions


\* C22: in a batch the runs do not touch each other.  A stage executed by one
\* worker leaves the other worker's state as it was, and when the processor
\* is handed over, the worker that resumes finds its hop log, action log,
\* validation log, escalation record, error, position and final status
\* exactly as it left them, while the one set aside keeps its own.  Each
\* run's logs and terminal status are therefore those of the run alone,
\* whatever the interleaving.
C22_IsolatedStep ==
    parked # <<>> =>
        \/ parked' = parked
        \/ /\ pc' = parked[1].pc
           /\ hops' = parked[1].hops
           /\ actions' = parked[1].actions
           /\ validate' = parked[1].validate
           /\ escalate' = parked[1].escalate
           /\ error' = parked[1].error
           /\ finalize' = parked[1].finalize
           /\ parked' # <<>>
           /\ parked'[1].pc = pc
           /\ parked'[1].hops = hops
           /\ parked'[1].actions = actions
           /\ parked'[1].validate = validate
           /\ parked'[1].escalate = escalate
           /\ parked'[1].error = error
           /\ parked'[1].finalize = finalize

C23_ReviewFlag ==
    (analysis # <<>> /\ analysis[1].op = "requires_review") =>
        LET a == analysis[1]
        IN /\ a.tool_name \in NO_ESCALATION_TOOLS => ~a.requires_review
           /\ a.tool_name = LINK_TOOL =>
                 (a.requires_review <=>
                     a.result_data \in {"match_found", "unparsable"})
           /\ a.tool_name \notin NO_ESCALATION_TOOLS \cup {LINK_TOOL} =>
                 a.requires_review

\* the linking tool found no match and the action needs no review
C23_Witness ==
    /\ analysis # <<>>
    /\ analysis[1].op = "requires_review"
    /\ analysis[1].tool_name = LINK_TOOL
    /\ analysis[1].result_data = "no_match"
    /\ ~analysis[1].requires_review


\* C24: Escalate always writes an escalation record whose reason is not
\* empty, and the stage that runs after it is Finalize, whether the note was
\* posted, failed or skipped.
C24_EscalateStep ==
    pc = "escalate" =>
        /\ pc' = "finalize"
        /\ escalate' # <<>>
        /\ escalate'[1].escalation_reason \notin {NONE, ABSENT, ""}

C24_EscalateRecordsReasonThenFinalize == [][C24_EscalateStep]_vars


\* C25: whatever the planned gather calls and whichever of them fail, Gather
\* records one result per planned call, in plan order, successful exactly
\* for the calls that returned; it leaves the error unset and the next
\* stage is Coverage; and what it merges into the accumulated data comes
\* from successful results only.
C25_OneResultPerCall ==
    (analysis # <<>> /\ analysis[1].op = "gather" /\ analysis[1].client = "ok") =>
        LET a == analysis[1]
            succeeded == SelectSeq(a.tool_results, LAMBDA r : r.success)
        IN /\ Len(a.tool_results) = Len(a.plan)
           /\ \A i \in 1..Len(a.plan) :
                 /\ a.tool_results[i].success <=> a.plan[i].outcome = "ok"
                 /\ a.plan[i].outcome # "invalid" =>
                        a.tool_results[i].tool_name = a.plan[i].tool_name
                 /\ a.plan[i].outcome = "ok" =>
                        a.tool_results[i].data = <<a.plan[i].data>>
           /\ ~Truthy(a.error)
           /\ a.next = "coverage"
           /\ a.tool_data # <<>> =>
                 \E i \in 1..Len(a.plan) :
                    a.plan[i].outcome = "ok" /\ a.plan[i].tool_name = PLAIN_TOOL
           /\ a.docs_data # {} =>
                 \E i \in 1..Len(a.plan) :
                    a.plan[i].outcome = "ok" /\ a.plan[i].tool_name = DOCS_TOOL
           /\ StoreResults(<<>>, {}, succeeded, 1) =
                 [tool_data |-> a.tool_data, docs_data |-> a.docs_data]

\* a plan of three calls of which the first fails, the second does not
\* validate and the third returns data that is merged
C25_Witness ==
    /\ analysis # <<>>
    /\ analysis[1].op = "gather"
    /\ analysis[1].client = "ok"
    /\ Len(analysis[1].plan) = 3
    /\ analysis[1].plan[1].outcome = "fail"
    /\ analysis[1].plan[2].outcome = "invalid"
    /\ analysis[1].plan[3].outcome = "ok"
    /\ analysis[1].tool_data # <<>>
    /\ Len(analysis[1].tool_results) = 3


\* C26: when the judgement service answers continue, the token Coverage
\* writes is respond and the next stage is Draft, at every hop number and
\* whatever the sufficiency flag of the answer.
C26_ContinueRoutesToRespond ==
    (/\ analysis # <<>>
     /\ ~analysis[1].result.raised
     /\ analysis[1].replies[analysis[1].result.calls].next_action = "continue") =>
        /\ analysis[1].token = "respond"
        /\ analysis[1].next = "draft"


\* C27: one Coverage run asks the judgement service at most three times,
\* retries for malformed output and for invalid action parameters counted
\* together; when the last attempt allowed still fails, Coverage sets the
\* error, records an escalation reason and routes to escalate.
C27_AtMostThreeCalls ==
    analysis # <<>> =>
        /\ analysis[1].result.calls <= 3
        /\ analysis[1].result.raised =>
              /\ Truthy(analysis[1].error)
              /\ analysis[1].escalation_reason \notin {NONE, ABSENT, ""}
              /\ analysis[1].token = "escalate"
              /\ analysis[1].next = "escalate"

\* malformed output, then invalid parameters, then invalid parameters again:
\* the third call was the last and the run failed
C27_Witness ==
    /\ analysis # <<>>
    /\ Len(analysis[1].replies) = 3
    /\ analysis[1].replies[1].kind = "malformed"
    /\ analysis[1].replies[2].kind = "ok"
    /\ analysis[1].replies[3].kind = "ok"
    /\ analysis[1].result.calls = 3
    /\ analysis[1].result.raised
    /\ analysis[1].token = "escalate"


\* C28: after a gather tool other than the docs search has returned data n
\* times, its accumulated entry is that result when n = 1 and the list of the
\* n results in call order when n > 1, whatever the shapes of the results.
C28_AccumulatedInCallOrder ==
    (analysis # <<>> /\ analysis[1].op = "gather" /\ analysis[1].client = "ok") =>
        LET a == analysis[1]
            returned == SelectSeq(a.tool_results,
                            LAMBDA r : /\ r.tool_name = PLAIN_TOOL
                                       /\ r.success
                                       /\ DataTruthy(r.data[1]))
            n == Len(returned)
        IN /\ n = 0 => a.tool_data = <<>>
           /\ n = 1 => a.tool_data = <<returned[1].data[1]>>
           /\ n > 1 => a.tool_data =
                           <<List([i \in 1..n |-> returned[i].data[1]])>>


\* C29: when the conversation id is missing, or the conversation cannot be
\* set up (it has neither messages nor a subject), Initialize sets the error
\* and is not run again; the next stage is Escalate, then Finalize;
\* Procedure, Plan and Respond never run, and the final status is error.
C29_InitializeError ==
    error \in {"conversation_id is required", "Initialization failed"}

C29_InitializeStep ==
    /\ (pc = "initialize" /\ Truthy(error')) =>
           (C29_InitializeError' /\ pc' = "escalate")
    /\ pc # "initialize" => pc' # "initialize"
    /\ (C29_InitializeError /\ pc = "escalate") => pc' = "finalize"
    /\ (C29_InitializeError /\ pc = "finalize") => pc' = "END"

C29_AfterInitializeError ==
    C29_InitializeError =>
        /\ pc \in {"escalate", "finalize", "END"}
        /\ selected_procedure = <<>>
        /\ hops = <<>>
        /\ draft = <<>>
        /\ validate = <<>>
        /\ response_delivery = <<>>
        /\ pc = "END" =>
              /\ escalate # <<>>
              /\ finalize # <<>>
              /\ finalize[1].melvin_status = "error"

C29_InputErrorEscalates ==
    [][C29_InitializeStep]_vars /\ []C29_AfterInitializeError

\* a run without a conversation id has ended with the status error
C29_Witness ==
    /\ pc = "END"
    /\ conversation_id = ""
    /\ error = "conversation_id is required"
    /\ escalate # <<>>
    /\ finalize # <<>>
    /\ finalize[1].melvin_status = "error"


\* C30: a failure inside Procedure is not fatal: the error stays unset, no
\* procedure is selected, no action tool is recorded as required by a
\* procedure, and the next stage is Plan.
C30_ProcedureFailureNotFatal ==
    (/\ analysis # <<>>
     /\ analysis[1].op = "procedure"
     /\ analysis[1].outcome \in {"fail", "fail_after_match"}) =>
        /\ ~Truthy(analysis[1].error)
        /\ analysis[1].selected_procedure = <<>>
        /\ analysis[1].procedure_required_action_tools = {}
        /\ analysis[1].next = "plan"

\* the stage failed after it had selected a procedure that mentions the
\* reset tool, with the reset tool on the capability list
C30_Witness ==
    /\ analysis # <<>>
    /\ analysis[1].op = "procedure"
    /\ analysis[1].outcome = "fail_after_match"
    /\ analysis[1].mentions = {RESET_TOOL}
    /\ RESET_TOOL \in analysis[1].avail
    /\ analysis[1].selected_procedure = <<>>
    /\ RESET_TOOL \notin analysis[1].available_tools


\* C31: after Procedure, on every path through it, the capability list
\* holds a procedure-restricted tool only if a procedure is selected and its
\* content mentions the tool.
C31_RestrictedToolsNeedProcedure ==
    (analysis # <<>> /\ analysis[1].op = "procedure") =>
        \A t \in analysis[1].available_tools \cap PROCEDURE_SPECIFIC_TOOLS :
            /\ analysis[1].selected_procedure # <<>>
            /\ t \in analysis[1].selected_procedure[1].mentions


\* C32: the escalation source follows the priority of its first three
\* triggers: an action-review trigger (actions taken and a reason that
\* mentions an action) wins over a route-to-human draft, which wins over a
\* failed most recent validation.
C32_SourcePriority ==
    (analysis # <<>> /\ analysis[1].op = "escalation_source") =>
        LET a == analysis[1]
            action_trigger == a.taken > 0 /\ MentionsAction(a.reason)
            draft_trigger ==
                a.draft # <<>> /\ a.draft[1].response_type = "ROUTE_TO_TEAM"
            validate_trigger ==
                a.validate # <<>> /\ ~a.validate[Len(a.validate)].overall_passed
        IN /\ action_trigger => a.source = "action"
           /\ (~action_trigger /\ draft_trigger) => a.source = "draft"
           /\ (~action_trigger /\ ~draft_trigger /\ validate_trigger) =>
                 a.source = "validate"

\* all three triggers are present and the source is action
C32_Witness ==
    /\ analysis # <<>>
    /\ analysis[1].op = "escalation_source"
    /\ analysis[1].taken > 0
    /\ MentionsAction(analysis[1].reason)
    /\ analysis[1].draft # <<>>
    /\ analysis[1].draft[1].response_type = "ROUTE_TO_TEAM"
    /\ analysis[1].validate = <<[overall_passed |-> FALSE]>>
    /\ analysis[1].source = "action"


\* C33: when Escalate runs because the Coverage record of the last hop
\* decided escalate, with no action taken, no draft and no validation
\* attempt, the recorded escalation source is coverage.
C33_CoverageEscalationSource ==
    (/\ escalate # <<>>
     /\ actions_taken = 0
     /\ draft = <<>>
     /\ validate = <<>>
     /\ hops # <<>>
     /\ hops[Len(hops)].coverage # <<>>
     /\ hops[Len(hops)].coverage[1].next_node = "escalate") =>
        escalate[1].escalation_source = "coverage"


\* C34: the status Finalize derives is success if and only if the reply was
\* delivered, the run did not pass through Escalate, and the current draft
\* is of kind reply.
C34_SuccessIff ==
    finalize # <<>> =>
        (finalize[1].melvin_status = "success" <=>
            /\ response_delivery # <<>>
            /\ response_delivery[1].intercom_delivered
            /\ escalate = <<>>
            /\ draft # <<>>
            /\ draft[1].response_type = "REPLY")

\* a run ended with the status success
C34_Witness ==
    /\ pc = "END"
    /\ finalize # <<>>
    /\ finalize[1].melvin_status = "success"
    /\ response_delivery # <<>>
    /\ response_delivery[1].intercom_delivered
    /\ escalate = <<>>


\* C35: when the delivery of a reply-kind draft fails, the status Finalize
\* derives is message_failed.
C35_FailedDeliveryStatus ==
    (/\ finalize # <<>>
     /\ response_delivery # <<>>
     /\ ~response_delivery[1].intercom_delivered
     /\ draft # <<>>
     /\ draft[1].response_type = "REPLY") =>
        finalize[1].melvin_status = "message_failed"


\* C36: the conversation id and the dry-run flag the action tool is called
\* with are the run's own, whatever the judgement put into the parameters
\* (a call without dry_run counts as one with dry_run false).
C36_RuntimeValuesInjected ==
    (analysis # <<>> /\ analysis[1].op = "action_params") =>
        /\ analysis[1].sent.conversation_id = <<analysis[1].run_conversation_id>>
        /\ StateDryRun(analysis[1].sent.dry_run) = StateDryRun(analysis[1].flag)


\* C37: the hop log only grows at its end and only its last record is
\* written: no step changes a record that is not the last, a step that
\* appends a hop leaves every record it found as it was, and no step
\* removes or reorders records.
C37_HopStep ==
    /\ Len(hops') >= Len(hops)
    /\ \A i \in 1..(Len(hops) - 1) : hops'[i] = hops[i]
    /\ Len(hops') > Len(hops) =>
           /\ Len(hops') = Len(hops) + 1
           /\ \A i \in 1..Len(hops) : hops'[i] = hops[i]

C37_OnlyLastHopWritten == [][C37_HopStep]_vars

\* a second hop has been gathered for and judged after the first
C37_Witness ==
    /\ Len(hops) = 2
    /\ hops[1].gather # <<>>
    /\ hops[1].coverage # <<>>
    /\ hops[2].gather # <<>>
    /\ hops[2].coverage # <<>>
    /\ hops[2].coverage # hops[1].coverage


\* C38: every failure inside Action's guarded execution is handled as a tool
\* failure: the step appends a failed action record that requires review and
\* routes to Escalate, and the stage never lets an exception reach the
\* engine.  As stated this fails: when creating the gateway client raises,
\* the handler reads start_time before it is bound and raises itself.
C38_ActionStep ==
    (/\ pc = "action"
     /\ Len(hops) > 0
     /\ hops[Len(hops)].coverage # <<>>
     /\ hops[Len(hops)].coverage[1].coverage_response.action_decision # <<>>) =>
        /\ pc' # "crashed"
        /\ Len(actions') = Len(actions) + 1
        /\ ~actions'[Len(actions')].success =>
               /\ actions'[Len(actions')].requires_review
               /\ next_node' = "escalate"
               /\ pc' = "escalate"

C38_FailureHandledAsToolFailure == [][C38_ActionStep]_vars
====
